---- MODULE Spec2Model ----
(***************************************************************************)
(* Model of mDeepFRI's contact-map code:                                   *)
(*   - align_contact_map      (src/mDeepFRI/bio_utils.py, lines 233-340)   *)
(*   - calculate_contact_map  (src/mDeepFRI/bio_utils.py, lines 179-211)   *)
(*   - QueryFile.filter_sequences (src/mDeepFRI/mmseqs.py, lines 322-371)  *)
(* align_contact_map is modelled statement by statement: one action per    *)
(* branch of the scan loop, one for the translation pass, one for the      *)
(* allocation of the output matrix and one per iteration of the fill loop. *)
(* A Python exception ends the call in pc = "raised" with its type in      *)
(* `error`.  Alignment strings are sequences of one-character strings; the *)
(* code only ever compares a symbol with "-", so one residue letter is     *)
(* enough.                                                                 *)
(***************************************************************************)
EXTENDS Integers, Sequences, FiniteSets, TLC

\* ------------------------------------------------------------- bounds
\* Longest alignment string drawn as an input.
MaxLen == 3
\* Longest sparse target contact list drawn as an input.
MaxContacts == 2
\* Largest generated_contacts drawn as an input (the smallest is -1).
MaxRadius == 1
\* Most residues of a structure drawn as an input.
MaxResidues == 3
\* Largest x coordinate of a residue (y and z are 0 or 1).
MaxCoord == 2
\* Number of sequence IDs a QueryFile may hold.
MaxIds == 2
\* Longest sequence stored in a QueryFile.
MaxSeqLen == 3

VARIABLES
    \* inputs of align_contact_map
    query_alignment, target_alignment, sparse_target_contact_map,
    generated_contacts,
    \* locals of align_contact_map
    pc, error, i, target_index, query_index, target_to_query_indices,
    sparse_query_contact_map, output_contact_map, k,
    \* inputs of calculate_contact_map: the CA coordinates of the structure's
    \* residues in chain order, and the three parameters
    coords, max_seq_len, threshold, mode,
    \* locals of calculate_contact_map
    cm_pc, cm_error, residues, cmap,
    \* attributes of a QueryFile
    sequences, too_long, too_short,
    \* arguments and local of filter_sequences
    min_length, max_length, qf_pc, qf_error, filtered_sequences,
    \* the attributes as they were when filter_sequences was called
    old_sequences, old_too_long, old_too_short

align_vars == <<query_alignment, target_alignment, sparse_target_contact_map,
                generated_contacts, pc, error, i, target_index, query_index,
                target_to_query_indices, sparse_query_contact_map,
                output_contact_map, k>>

cm_inputs == <<coords, max_seq_len, threshold, mode>>

cm_vars == <<coords, max_seq_len, threshold, mode, cm_pc, cm_error, residues,
             cmap>>

qf_attrs == <<sequences, too_long, too_short>>

qf_old == <<old_sequences, old_too_long, old_too_short>>

qf_vars == <<sequences, too_long, too_short, min_length, max_length, qf_pc,
             qf_error, filtered_sequences, old_sequences, old_too_long,
             old_too_short>>

vars == <<align_vars, cm_vars, qf_vars>>

inputs == <<query_alignment, target_alignment, sparse_target_contact_map,
            generated_contacts>>

\* ------------------------------------------------------------- helpers
Gap == "-"
Symbols == {"A", Gap}

\* All sequences over S of length at most n.
SeqsUpTo(S, n) == UNION {[1..m -> S] : m \in 0..n}

\* Target residue indices a contact of the input list may name.  A scan
\* of fewer than MaxLen target columns leaves the largest ones unvisited.
TargetIndices == 0..(MaxLen - 1)

\* Lexicographic order of index pairs: the row-major order in which
\* np.argwhere lists the contacts.
PairLeq(p, q) == p[1] < q[1] \/ (p[1] = q[1] /\ p[2] <= q[2])

\* Contact lists in row-major order, repeated entries allowed.
ContactLists ==
    {s \in SeqsUpTo(TargetIndices \X TargetIndices, MaxContacts) :
        \A n \in 1..(Len(s) - 1) : PairLeq(s[n], s[n + 1])}

\* dict[key] = value
DictSet(d, key, value) ==
    [x \in (DOMAIN d) \cup {key} |-> IF x = key THEN value ELSE d[x]]

\* GeneratedPairs without the (q - j, q) append of lines 305-306.
GeneratedPairs_ForwardOnly(q, radius) ==
    [n \in 1..(IF radius > 0 THEN radius ELSE 0) |-> <<q + n, q>>]

\* The pairs appended for one template-uncovered query residue q:
\* for j in range(1, generated_contacts + 1): (q + j, q) then (q - j, q).
GeneratedPairs(q, radius) ==
    [n \in 1..(IF radius > 0 THEN 2 * radius ELSE 0) |->
        IF n % 2 = 1 THEN <<q + (n + 1) \div 2, q>>
                     ELSE <<q - n \div 2, q>>]

\* numpy's index normalisation on an axis of size n: a negative index
\* counts from the end; anything outside [-n, n) is an IndexError (-1 here).
NumpyIndex(x, n) ==
    IF 0 <= x /\ x < n THEN x
    ELSE IF -n <= x /\ x < 0 THEN x + n
    ELSE -1

\* ------------------------------------------------------------- Init
InitAlign ==
    /\ query_alignment \in SeqsUpTo(Symbols, MaxLen)
    /\ target_alignment \in SeqsUpTo(Symbols, MaxLen)
    /\ sparse_target_contact_map \in ContactLists
    /\ generated_contacts \in -1..MaxRadius
    /\ pc = "entry"
    /\ error = "none"
    /\ i = 0
    /\ target_index = 0
    /\ query_index = 0
    /\ target_to_query_indices = <<>>
    /\ sparse_query_contact_map = <<>>
    /\ output_contact_map = <<>>
    /\ k = 0

\* No call of calculate_contact_map is in progress.
IdleCmap ==
    /\ coords = <<>>
    /\ max_seq_len = 0
    /\ threshold = 0
    /\ mode = "matrix"
    /\ cm_pc = "idle"
    /\ cm_error = "none"
    /\ residues = <<>>
    /\ cmap = <<>>

\* Python's None as the value of min_length or max_length; the lengths
\* drawn as arguments are 0 or more.
None == -1

\* No QueryFile is in use.
IdleQf ==
    /\ sequences = <<>>
    /\ too_long = {}
    /\ too_short = {}
    /\ min_length = None
    /\ max_length = None
    /\ qf_pc = "idle"
    /\ qf_error = "none"
    /\ filtered_sequences = <<>>
    /\ old_sequences = <<>>
    /\ old_too_long = {}
    /\ old_too_short = {}

Init == InitAlign /\ IdleCmap /\ IdleQf

\* ------------------------------------------------------------- actions
\* Lines 283-290: the scan state is created; nothing is checked first.
Enter ==
    /\ pc = "entry"
    /\ pc' = "scan"
    /\ sparse_query_contact_map' = <<>>
    /\ target_index' = 0
    /\ query_index' = 0
    /\ target_to_query_indices' = <<>>
    /\ i' = 0
    /\ UNCHANGED <<qf_vars, cm_vars, inputs, error, output_contact_map, k>>

\* ScanQueryGap that also counts the gap column as a query residue.
ScanQueryGap_CountsQuery ==
    /\ pc = "scan"
    /\ i < Len(query_alignment)
    /\ query_alignment[i + 1] = Gap
    /\ target_to_query_indices' =
           DictSet(target_to_query_indices, target_index, -1)
    /\ target_index' = target_index + 1
    /\ query_index' = query_index + 1
    /\ i' = i + 1
    /\ UNCHANGED <<qf_vars, cm_vars, inputs, pc, error, sparse_query_contact_map,
                   output_contact_map, k>>

\* Lines 295-297: the query symbol is a gap; the target symbol is not read.
ScanQueryGap ==
    /\ pc = "scan"
    /\ i < Len(query_alignment)
    /\ query_alignment[i + 1] = Gap
    /\ target_to_query_indices' =
           DictSet(target_to_query_indices, target_index, -1)
    /\ target_index' = target_index + 1
    /\ i' = i + 1
    /\ UNCHANGED <<qf_vars, cm_vars, inputs, pc, error, query_index, sparse_query_contact_map,
                   output_contact_map, k>>

\* Line 301 when target_alignment is shorter than the column read.
ScanIndexError ==
    /\ pc = "scan"
    /\ i < Len(query_alignment)
    /\ query_alignment[i + 1] # Gap
    /\ i >= Len(target_alignment)
    /\ pc' = "raised"
    /\ error' = "IndexError"
    /\ UNCHANGED <<qf_vars, cm_vars, inputs, i, target_index, query_index,
                   target_to_query_indices, sparse_query_contact_map,
                   output_contact_map, k>>

\* Lines 301-307: query residue against a target gap.
ScanTargetGap ==
    /\ pc = "scan"
    /\ i < Len(query_alignment)
    /\ query_alignment[i + 1] # Gap
    /\ i < Len(target_alignment)
    /\ target_alignment[i + 1] = Gap
    /\ sparse_query_contact_map' =
           sparse_query_contact_map \o
           GeneratedPairs(query_index, generated_contacts)
    /\ query_index' = query_index + 1
    /\ i' = i + 1
    /\ UNCHANGED <<qf_vars, cm_vars, inputs, pc, error, target_index, target_to_query_indices,
                   output_contact_map, k>>

\* ScanMatch without the query_index increment of line 311.
ScanMatch_NoQueryAdvance ==
    /\ pc = "scan"
    /\ i < Len(query_alignment)
    /\ query_alignment[i + 1] # Gap
    /\ i < Len(target_alignment)
    /\ target_alignment[i + 1] # Gap
    /\ target_to_query_indices' =
           DictSet(target_to_query_indices, target_index, query_index)
    /\ target_index' = target_index + 1
    /\ i' = i + 1
    /\ UNCHANGED <<qf_vars, cm_vars, inputs, pc, error, query_index,
                   sparse_query_contact_map, output_contact_map, k>>

\* Lines 308-312: both symbols are residues.
ScanMatch ==
    /\ pc = "scan"
    /\ i < Len(query_alignment)
    /\ query_alignment[i + 1] # Gap
    /\ i < Len(target_alignment)
    /\ target_alignment[i + 1] # Gap
    /\ target_to_query_indices' =
           DictSet(target_to_query_indices, target_index, query_index)
    /\ query_index' = query_index + 1
    /\ target_index' = target_index + 1
    /\ i' = i + 1
    /\ UNCHANGED <<qf_vars, cm_vars, inputs, pc, error, sparse_query_contact_map,
                   output_contact_map, k>>

\* Line 318: the dict lookups of the translation raise KeyError for a
\* target index the scan never visited.
AbsentKey(contacts, table) ==
    \E n \in 1..Len(contacts) :
        contacts[n][1] \notin DOMAIN table \/ contacts[n][2] \notin DOMAIN table

\* Lines 315-319: every contact rewritten through the table.
TranslatedPairs(contacts, table) ==
    [n \in 1..Len(contacts) |->
        <<table[contacts[n][1]], table[contacts[n][2]]>>]

\* KeepTranslated that tests only the first end of the pair.
KeepTranslated_FirstOnly(p) == p[1] # -1

\* Line 321: the filter keeps a pair when neither end is -1.
KeepTranslated(p) == p[1] # -1 /\ p[2] # -1

\* Lines 315-323: translate, filter, extend.
Translate ==
    /\ pc = "scan"
    /\ i = Len(query_alignment)
    /\ IF AbsentKey(sparse_target_contact_map, target_to_query_indices)
       THEN /\ pc' = "raised"
            /\ error' = "KeyError"
            /\ UNCHANGED sparse_query_contact_map
       ELSE /\ pc' = "build"
            /\ sparse_query_contact_map' =
                   sparse_query_contact_map \o
                   SelectSeq(TranslatedPairs(sparse_target_contact_map,
                                             target_to_query_indices),
                             KeepTranslated)
            /\ UNCHANGED error
    /\ UNCHANGED <<qf_vars, cm_vars, inputs, i, target_index, query_index,
                   target_to_query_indices, output_contact_map, k>>

\* DiagonalMatrix without the diagonal loop of lines 328-329.
DiagonalMatrix_Zeros(n) ==
    [c \in (0..(n - 1)) \X (0..(n - 1)) |-> 0]

\* Lines 326-329: np.zeros((n, n)) with the diagonal filled.
DiagonalMatrix(n) ==
    [c \in (0..(n - 1)) \X (0..(n - 1)) |-> IF c[1] = c[2] THEN 1 ELSE 0]

Build ==
    /\ pc = "build"
    /\ output_contact_map' = DiagonalMatrix(query_index)
    /\ pc' = "fill"
    /\ k' = 0
    /\ UNCHANGED <<qf_vars, cm_vars, inputs, error, i, target_index, query_index,
                   target_to_query_indices, sparse_query_contact_map>>

\* SkipPair without the i < 0 test of lines 332-333.
SkipPair_NoLowerCheck(p, n) == p[1] >= n

\* Lines 332-335: a pair is skipped when its first index is out of range.
SkipPair(p, n) == p[1] < 0 \/ p[1] >= n

\* SetSymmetric without the mirrored write of line 338.
SetSymmetric_OneWay(m, a, b) ==
    [c \in DOMAIN m |-> IF c = <<a, b>> THEN 1 ELSE m[c]]

\* Lines 337-338: both cells set.
SetSymmetric(m, a, b) ==
    [c \in DOMAIN m |->
        IF c = <<a, b>> \/ c = <<b, a>> THEN 1 ELSE m[c]]

\* Lines 331-335: one iteration of the fill loop that skips its pair.
FillSkip ==
    /\ pc = "fill"
    /\ k < Len(sparse_query_contact_map)
    /\ SkipPair(sparse_query_contact_map[k + 1], query_index)
    /\ k' = k + 1
    /\ UNCHANGED <<qf_vars, cm_vars, inputs, pc, error, i, target_index, query_index,
                   target_to_query_indices, sparse_query_contact_map,
                   output_contact_map>>

\* Lines 331-338: one iteration of the fill loop that writes its pair.
\* numpy raises IndexError for an index it cannot normalise.
FillSet ==
    /\ pc = "fill"
    /\ k < Len(sparse_query_contact_map)
    /\ ~SkipPair(sparse_query_contact_map[k + 1], query_index)
    /\ LET a == NumpyIndex(sparse_query_contact_map[k + 1][1], query_index)
           b == NumpyIndex(sparse_query_contact_map[k + 1][2], query_index)
       IN  IF a = -1 \/ b = -1
           THEN /\ pc' = "raised"
                /\ error' = "IndexError"
                /\ UNCHANGED <<output_contact_map, k>>
           ELSE /\ output_contact_map' =
                       SetSymmetric(output_contact_map, a, b)
                /\ k' = k + 1
                /\ UNCHANGED <<pc, error>>
    /\ UNCHANGED <<qf_vars, cm_vars, inputs, i, target_index, query_index,
                   target_to_query_indices, sparse_query_contact_map>>

\* Lines 331-338 as one function: the fill loop run over a whole pair list.
\* The result carries the matrix and the exception that ended the loop.
RECURSIVE FillAll(_, _, _)
FillAll(m, pairs, n) ==
    IF pairs = <<>>
    THEN [error |-> "none", map |-> m]
    ELSE IF SkipPair(Head(pairs), n)
         THEN FillAll(m, Tail(pairs), n)
         ELSE LET a == NumpyIndex(Head(pairs)[1], n)
                  b == NumpyIndex(Head(pairs)[2], n)
              IN  IF a = -1 \/ b = -1
                  THEN [error |-> "IndexError", map |-> m]
                  ELSE FillAll(SetSymmetric(m, a, b), Tail(pairs), n)

\* Lines 315-340 as one function of the contact list, given the table, the
\* generated pairs and the query length the scan produced.
AlignedMap(contacts, table, generated, n) ==
    IF AbsentKey(contacts, table)
    THEN [error |-> "KeyError", map |-> <<>>]
    ELSE FillAll(DiagonalMatrix(n),
                 generated \o
                 SelectSeq(TranslatedPairs(contacts, table), KeepTranslated),
                 n)

\* Line 340.
Return ==
    /\ pc = "fill"
    /\ k = Len(sparse_query_contact_map)
    /\ pc' = "done"
    /\ UNCHANGED <<qf_vars, cm_vars, inputs, error, i, target_index, query_index,
                   target_to_query_indices, sparse_query_contact_map,
                   output_contact_map, k>>

Next ==
    \/ Enter
    \/ ScanQueryGap
    \/ ScanIndexError
    \/ ScanTargetGap
    \/ ScanMatch
    \/ Translate
    \/ Build
    \/ FillSkip
    \/ FillSet
    \/ Return

Spec == Init /\ [][Next]_vars

\* ------------------------------------------------- calculate_contact_map
\* CA coordinates: integer points, which the float32 coordinates of a PDB
\* record and the float64 distances of pdist represent exactly.
Points == (0..MaxCoord) \X (0..1) \X (0..1)

\* Distance thresholds drawn as inputs; the largest puts every pair of
\* Points in contact.
Thresholds == -1..(MaxCoord + 1)

\* No call of align_contact_map is in progress.
IdleAlign ==
    /\ query_alignment = <<>>
    /\ target_alignment = <<>>
    /\ sparse_target_contact_map = <<>>
    /\ generated_contacts = 0
    /\ pc = "idle"
    /\ error = "none"
    /\ i = 0
    /\ target_index = 0
    /\ query_index = 0
    /\ target_to_query_indices = <<>>
    /\ sparse_query_contact_map = <<>>
    /\ output_contact_map = <<>>
    /\ k = 0

InitCmap ==
    /\ coords \in SeqsUpTo(Points, MaxResidues)
    /\ max_seq_len \in 0..MaxResidues
    /\ threshold \in Thresholds
    /\ mode \in {"matrix", "sparse"}
    /\ cm_pc = "call"
    /\ cm_error = "none"
    /\ residues = <<>>
    /\ cmap = <<>>

InitCm == IdleAlign /\ InitCmap /\ IdleQf

\* SliceTo that keeps the last n items instead of the first: s[-n:].
SliceTo_KeepLast(s, n) ==
    LET keep == IF n >= 0 THEN (IF n < Len(s) THEN n ELSE Len(s))
                ELSE (IF Len(s) + n > 0 THEN Len(s) + n ELSE 0)
    IN  SubSeq(s, Len(s) - keep + 1, Len(s))

\* Python's s[:n]: the first n items, or all but the last -n for n < 0.
SliceTo(s, n) ==
    LET stop == IF n >= 0 THEN (IF n < Len(s) THEN n ELSE Len(s))
                ELSE (IF Len(s) + n > 0 THEN Len(s) + n ELSE 0)
    IN  SubSeq(s, 1, stop)

\* Square of the Euclidean distance of two points.
SquaredDistance(p, q) ==
    (p[1] - q[1]) * (p[1] - q[1]) + (p[2] - q[2]) * (p[2] - q[2]) +
    (p[3] - q[3]) * (p[3] - q[3])

\* Line 204: distances < threshold.  A distance is the non-negative root of
\* the squared distance, so it is below t exactly when t is positive and
\* the squared distance is below t * t.
IsContact(p, q, t) == t > 0 /\ SquaredDistance(p, q) < t * t

\* Lines 201-204: the 0/1 matrix over the kept residues.
ContactMatrix(rs, t) ==
    [c \in (0..(Len(rs) - 1)) \X (0..(Len(rs) - 1)) |->
        IF IsContact(rs[c[1] + 1], rs[c[2] + 1], t) THEN 1 ELSE 0]

\* Line 207: np.argwhere lists the cells equal to 1 in row-major order.
ArgWhere(m, n) ==
    SelectSeq([c \in 1..(n * n) |-> <<(c - 1) \div n, (c - 1) % n>>],
              LAMBDA cell : m[cell] = 1)

\* Line 199: the residues are cut to max_seq_len.
TruncateResidues ==
    /\ cm_pc = "call"
    /\ residues' = SliceTo(coords, max_seq_len)
    /\ cm_pc' = "distances"
    /\ UNCHANGED <<qf_vars, align_vars, cm_inputs, cm_error, cmap>>

\* Lines 201-204: pdist refuses the one-dimensional array np.array([]) of
\* an empty residue list with ValueError.
ThresholdDistances ==
    /\ cm_pc = "distances"
    /\ IF Len(residues) = 0
       THEN /\ cm_pc' = "raised"
            /\ cm_error' = "ValueError"
            /\ UNCHANGED cmap
       ELSE /\ cmap' = ContactMatrix(residues, threshold)
            /\ cm_pc' = "mode"
            /\ UNCHANGED cm_error
    /\ UNCHANGED <<qf_vars, align_vars, cm_inputs, residues>>

\* Lines 206-207 and 211.
ReturnSparse ==
    /\ cm_pc = "mode"
    /\ mode = "sparse"
    /\ cmap' = ArgWhere(cmap, Len(residues))
    /\ cm_pc' = "done"
    /\ UNCHANGED <<qf_vars, align_vars, cm_inputs, cm_error, residues>>

\* Lines 208-211.
ReturnMatrix ==
    /\ cm_pc = "mode"
    /\ mode # "sparse"
    /\ cm_pc' = "done"
    /\ UNCHANGED <<qf_vars, align_vars, cm_inputs, cm_error, residues, cmap>>

NextCmap ==
    \/ TruncateResidues
    \/ ThresholdDistances
    \/ ReturnSparse
    \/ ReturnMatrix

SpecCmap == InitCm /\ [][NextCmap]_vars

\* ---------------------------------------------- QueryFile.filter_sequences
\* Sequence IDs (FASTA entry names) and sequences.  filter_sequences reads
\* only the length of a sequence, so one residue letter is enough.
Ids == 1..MaxIds
SequenceValues == SeqsUpTo({"A"}, MaxSeqLen)

\* Values of min_length and max_length: None, or a length.
LengthArgs == {None} \cup (0..(MaxSeqLen + 1))

\* Lines 227-231: a new QueryFile.
InitQueryFile ==
    /\ sequences = <<>>
    /\ too_long = {}
    /\ too_short = {}
    /\ min_length = None
    /\ max_length = None
    /\ qf_pc = "ready"
    /\ qf_error = "none"
    /\ filtered_sequences = <<>>
    /\ old_sequences = <<>>
    /\ old_too_long = {}
    /\ old_too_short = {}

InitQf == IdleAlign /\ IdleCmap /\ InitQueryFile

\* Python's truth value of an argument: None and 0 are false.
Truthy(x) == x # None /\ x # 0

\* Lines 348-351: the entries of d at least n long.
AtLeast(d, n) == [id \in {x \in DOMAIN d : Len(d[x]) >= n} |-> d[id]]

\* Lines 360-363: the entries of d at most n long.
AtMost(d, n) == [id \in {x \in DOMAIN d : Len(d[x]) <= n} |-> d[id]]

\* Lines 239-240, and the assignments of load_sequences (265) and
\* load_ids (316): one entry is stored, between calls of filter_sequences.
SetItem ==
    /\ qf_pc \in {"ready", "returned", "raised"}
    /\ \E key \in Ids, value \in SequenceValues :
           sequences' = DictSet(sequences, key, value)
    /\ qf_pc' = "ready"
    /\ qf_error' = "none"
    /\ min_length' = None
    /\ max_length' = None
    /\ filtered_sequences' = <<>>
    /\ old_sequences' = <<>>
    /\ old_too_long' = {}
    /\ old_too_short' = {}
    /\ UNCHANGED <<align_vars, cm_vars, too_long, too_short>>

\* Line 322: filter_sequences is called.
CallFilter ==
    /\ qf_pc \in {"ready", "returned", "raised"}
    /\ min_length' \in LengthArgs
    /\ max_length' \in LengthArgs
    /\ qf_pc' = "check"
    /\ qf_error' = "none"
    /\ filtered_sequences' = <<>>
    /\ old_sequences' = sequences
    /\ old_too_long' = too_long
    /\ old_too_short' = too_short
    /\ UNCHANGED <<align_vars, cm_vars, qf_attrs>>

\* Lines 341-346.
CheckLoaded ==
    /\ qf_pc = "check"
    /\ IF DOMAIN sequences = {}
       THEN /\ qf_pc' = "raised"
            /\ qf_error' = "ValueError"
            /\ UNCHANGED filtered_sequences
       ELSE /\ filtered_sequences' = sequences
            /\ qf_pc' = "min"
            /\ UNCHANGED qf_error
    /\ UNCHANGED <<align_vars, cm_vars, qf_attrs, min_length, max_length,
                   qf_old>>

\* Lines 347-357.
MinFilter ==
    /\ qf_pc = "min"
    /\ IF ~Truthy(min_length)
       THEN /\ qf_pc' = "max"
            /\ UNCHANGED <<filtered_sequences, qf_error, too_long>>
       ELSE IF DOMAIN AtLeast(filtered_sequences, min_length) = {}
       THEN /\ filtered_sequences' = AtLeast(filtered_sequences, min_length)
            /\ qf_pc' = "raised"
            /\ qf_error' = "ValueError"
            /\ UNCHANGED too_long
       ELSE /\ filtered_sequences' = AtLeast(filtered_sequences, min_length)
            /\ too_long' =
                   (DOMAIN sequences) \
                   (DOMAIN AtLeast(filtered_sequences, min_length))
            /\ qf_pc' = "max"
            /\ UNCHANGED qf_error
    /\ UNCHANGED <<align_vars, cm_vars, sequences, too_short, min_length,
                   max_length, qf_old>>

\* Lines 359-369.
MaxFilter ==
    /\ qf_pc = "max"
    /\ IF ~Truthy(max_length)
       THEN /\ qf_pc' = "assign"
            /\ UNCHANGED <<filtered_sequences, qf_error, too_short>>
       ELSE IF DOMAIN AtMost(filtered_sequences, max_length) = {}
       THEN /\ filtered_sequences' = AtMost(filtered_sequences, max_length)
            /\ qf_pc' = "raised"
            /\ qf_error' = "ValueError"
            /\ UNCHANGED too_short
       ELSE /\ filtered_sequences' = AtMost(filtered_sequences, max_length)
            /\ too_short' =
                   (DOMAIN sequences) \
                   (DOMAIN AtMost(filtered_sequences, max_length))
            /\ qf_pc' = "assign"
            /\ UNCHANGED qf_error
    /\ UNCHANGED <<align_vars, cm_vars, sequences, too_long, min_length,
                   max_length, qf_old>>

\* Line 371.
AssignSequences ==
    /\ qf_pc = "assign"
    /\ sequences' = filtered_sequences
    /\ qf_pc' = "returned"
    /\ UNCHANGED <<align_vars, cm_vars, too_long, too_short, min_length,
                   max_length, qf_error, filtered_sequences, qf_old>>

NextQf ==
    \/ SetItem
    \/ CallFilter
    \/ CheckLoaded
    \/ MinFilter
    \/ MaxFilter
    \/ AssignSequences

SpecQf == InitQf /\ [][NextQf]_vars

\* ------------------------------------------------------------- claims
\* Number of non-gap symbols of an alignment string.
NonGapCount(s) == Cardinality({n \in 1..Len(s) : s[n] # Gap})

\* Ungapped index of the residue in column c (1-based) of string s.
UngappedIndex(s, c) == Cardinality({n \in 1..(c - 1) : s[n] # Gap})

\* The call has returned a contact map.
Returned == pc = "done"

\* Columns (1-based) where the query has a residue and the target a gap.
TargetGapColumns ==
    {c \in 1..Len(query_alignment) :
        /\ c <= Len(target_alignment)
        /\ query_alignment[c] # Gap
        /\ target_alignment[c] = Gap}

\* Columns (1-based) where both strings have a gap.
DoubleGapColumns ==
    {c \in 1..Len(query_alignment) :
        /\ c <= Len(target_alignment)
        /\ query_alignment[c] = Gap
        /\ target_alignment[c] = Gap}

\* C1: alignment strings of different lengths are rejected with an
\* alignment-length-mismatch error before any scan state is created, and no
\* contact map is returned.
C1_LengthMismatchRejected ==
    Len(query_alignment) # Len(target_alignment) =>
        /\ pc \in {"entry", "raised"}
        /\ pc = "raised" => error = "AlignmentLengthMismatchError"

\* C2: every returned contact map is symmetric.
C2_Symmetric ==
    Returned =>
        \A a, b \in 0..(query_index - 1) :
            output_contact_map[<<a, b>>] = output_contact_map[<<b, a>>]

C2_Witness ==
    /\ Returned
    /\ \E a, b \in 0..(query_index - 1) :
           a # b /\ output_contact_map[<<a, b>>] = 1
    /\ \E a, b \in 0..(query_index - 1) :
           a # b /\ output_contact_map[<<a, b>>] = 0

\* C3: every returned contact map has its whole diagonal set, whatever
\* contacts were collected.
C3_Diagonal ==
    Returned =>
        \A a \in 0..(query_index - 1) : output_contact_map[<<a, a>>] = 1

C3_Witness ==
    /\ Returned
    /\ query_index >= 2
    /\ sparse_query_contact_map = <<>>
    /\ \A a \in 0..(query_index - 1) : output_contact_map[<<a, a>>] = 1

\* C4: the returned map is square with side the number of non-gap symbols
\* of the query string, which is also query_index after the scan.
C4_Dimension ==
    /\ pc \in {"build", "fill", "done"} =>
           query_index = NonGapCount(query_alignment)
    /\ Returned =>
           DOMAIN output_contact_map =
               (0..(NonGapCount(query_alignment) - 1)) \X
               (0..(NonGapCount(query_alignment) - 1))

C4_Witness ==
    /\ Returned
    /\ DoubleGapColumns # {}
    /\ TargetGapColumns # {}
    /\ query_index = 2
    /\ Cardinality(DOMAIN output_contact_map) = 4

\* A target index the scan mapped to a query index.
Mapped(a) ==
    a \in DOMAIN target_to_query_indices /\ target_to_query_indices[a] # -1

\* Positions of the input contacts with both ends mapped.
MappedPositions ==
    {n \in 1..Len(sparse_target_contact_map) :
        /\ Mapped(sparse_target_contact_map[n][1])
        /\ Mapped(sparse_target_contact_map[n][2])}

\* C5: the translation pass never raises; a contact with an end that is
\* UNMAPPED or absent from the table is dropped, every other contact (a, b)
\* is added as (a', b').
C5_TranslationDropsSilently ==
    /\ ~(pc = "raised" /\ error = "KeyError")
    /\ pc \in {"build", "fill", "done"} =>
           LET m == Cardinality(MappedPositions)
               l == Len(sparse_query_contact_map)
           IN  /\ l >= m
               /\ {sparse_query_contact_map[n] : n \in (l - m + 1)..l} =
                  {<<target_to_query_indices[sparse_target_contact_map[n][1]],
                     target_to_query_indices[sparse_target_contact_map[n][2]]>> :
                       n \in MappedPositions}

\* Residues the source contact graph covers: 0 .. largest index named.
SourceResidues ==
    {r \in TargetIndices :
        \E n \in 1..Len(sparse_target_contact_map) :
            r <= sparse_target_contact_map[n][1] \/
            r <= sparse_target_contact_map[n][2]}

SourceContacts ==
    {sparse_target_contact_map[n] : n \in 1..Len(sparse_target_contact_map)}

\* A sparse contact set as calculate_contact_map produces it.
SourceGraphWellFormed ==
    /\ \A r \in SourceResidues : <<r, r>> \in SourceContacts
    /\ \A p \in SourceContacts : <<p[2], p[1]>> \in SourceContacts

IdentityAlignment ==
    /\ query_alignment = target_alignment
    /\ \A n \in 1..Len(query_alignment) : query_alignment[n] # Gap

\* C6: for an identical, gap-free alignment of length N the call returns
\* the source contact graph restricted to indices below N, also when the
\* graph covers more than N residues.
C6_IdentityAlignment ==
    (IdentityAlignment /\ SourceGraphWellFormed) =>
        /\ pc # "raised"
        /\ Returned =>
               \A a, b \in 0..(Len(query_alignment) - 1) :
                   output_contact_map[<<a, b>>] = 1 <=>
                       <<a, b>> \in SourceContacts

\* C7: a column gapped on both sides advances neither index and writes no
\* table entry.
C7_DoubleGapSkipped ==
    [][(/\ pc = "scan"
        /\ i < Len(query_alignment)
        /\ (i + 1) \in DoubleGapColumns
        /\ i' = i + 1)
       => /\ target_index' = target_index
          /\ query_index' = query_index
          /\ target_to_query_indices' = target_to_query_indices]_vars

\* C8 (cells): in a returned map every in-range generated contact of every
\* template-uncovered query residue q is set, in both orders.
C8_Cells ==
    Returned =>
        \A c \in TargetGapColumns :
            \A j \in 1..generated_contacts :
                LET q == UngappedIndex(query_alignment, c)
                IN  /\ q + j < query_index =>
                        /\ output_contact_map[<<q + j, q>>] = 1
                        /\ output_contact_map[<<q, q + j>>] = 1
                    /\ q - j >= 0 =>
                        /\ output_contact_map[<<q - j, q>>] = 1
                        /\ output_contact_map[<<q, q - j>>] = 1

\* C8 (step): scanning such a column advances query_index by one and
\* leaves target_index alone.
C8_Step ==
    (/\ pc = "scan"
     /\ i < Len(query_alignment)
     /\ (i + 1) \in TargetGapColumns
     /\ i' = i + 1)
    => /\ query_index' = query_index + 1
       /\ target_index' = target_index
       /\ query_index = UngappedIndex(query_alignment, i + 1)

\* C8: generated contacts of a template-uncovered query residue.
C8_GeneratedContacts == [](C8_Cells) /\ [][C8_Step]_vars

C8_Witness ==
    /\ Returned
    /\ generated_contacts >= 1
    /\ query_index = 3
    /\ sparse_target_contact_map = <<>>
    /\ \E c \in TargetGapColumns : UngappedIndex(query_alignment, c) = 1
    /\ output_contact_map[<<0, 1>>] = 1
    /\ output_contact_map[<<2, 1>>] = 1
    /\ output_contact_map[<<0, 2>>] = 0

\* C9: a pair whose first index is outside [0, N_q) raises nothing and
\* writes no cell.
C9_OutOfRangeDropped ==
    [][(/\ pc = "fill"
        /\ k < Len(sparse_query_contact_map)
        /\ (sparse_query_contact_map[k + 1][1] < 0 \/
            sparse_query_contact_map[k + 1][1] >= query_index))
       => /\ output_contact_map' = output_contact_map
          /\ pc' = "fill"
          /\ error' = "none"
          /\ k' = k + 1]_vars

C9_Witness ==
    /\ Returned
    /\ query_index >= 2
    /\ \E n \in 1..Len(sparse_query_contact_map) :
           sparse_query_contact_map[n][1] < 0
    /\ \E n \in 1..Len(sparse_query_contact_map) :
           sparse_query_contact_map[n][1] >= query_index

\* Contacts a sparse result lists.
SparseContacts == {cmap[n] : n \in 1..Len(cmap)}

SparseReturned == cm_pc = "done" /\ mode = "sparse"

\* C10: in sparse mode the result is exactly the set of index pairs at
\* distance strictly below the threshold: every diagonal pair is present,
\* (a, b) is present iff (b, a) is, and a pair at distance equal to the
\* threshold is absent.
C10_SparseContacts ==
    SparseReturned =>
        LET n == Len(residues)
        IN  /\ SparseContacts \subseteq (0..(n - 1)) \X (0..(n - 1))
            /\ \A a, b \in 0..(n - 1) :
                   /\ <<a, b>> \in SparseContacts <=>
                          (threshold > 0 /\
                           SquaredDistance(residues[a + 1], residues[b + 1])
                               < threshold * threshold)
                   /\ <<a, b>> \in SparseContacts <=>
                          <<b, a>> \in SparseContacts
                   /\ (threshold >= 0 /\
                       SquaredDistance(residues[a + 1], residues[b + 1])
                           = threshold * threshold)
                          => <<a, b>> \notin SparseContacts
            /\ \A a \in 0..(n - 1) : <<a, a>> \in SparseContacts

\* C10 without its diagonal clause, which is all that fails: the thresholding
\* itself is exact, symmetric and strict for every threshold.
C10_Thresholding ==
    SparseReturned =>
        LET n == Len(residues)
        IN  /\ SparseContacts \subseteq (0..(n - 1)) \X (0..(n - 1))
            /\ \A a, b \in 0..(n - 1) :
                   /\ <<a, b>> \in SparseContacts <=>
                          (threshold > 0 /\
                           SquaredDistance(residues[a + 1], residues[b + 1])
                               < threshold * threshold)
                   /\ <<a, b>> \in SparseContacts <=>
                          <<b, a>> \in SparseContacts
            /\ threshold > 0 =>
                   \A a \in 0..(n - 1) : <<a, a>> \in SparseContacts

\* The smaller of two integers.
Min(a, b) == IF a <= b THEN a ELSE b

\* C11: the graph is built over the first N = min(number of residues,
\* max_seq_len) residues in chain order, indices preserved; a structure no
\* longer than max_seq_len is used whole.
C11_Truncation ==
    LET n == Min(Len(coords), max_seq_len)
    IN  /\ cm_pc \in {"distances", "mode", "done", "raised"} =>
               /\ Len(residues) = n
               /\ \A r \in 1..n : residues[r] = coords[r]
        /\ (cm_pc = "mode" \/ (cm_pc = "done" /\ mode # "sparse")) =>
               DOMAIN cmap = (0..(n - 1)) \X (0..(n - 1))
        /\ (cm_pc = "done" /\ mode = "sparse") =>
               /\ \A c \in 1..Len(cmap) :
                      cmap[c] \in (0..(n - 1)) \X (0..(n - 1))
               /\ threshold > 0 =>
                      \A r \in 0..(n - 1) :
                          \E c \in 1..Len(cmap) : cmap[c] = <<r, r>>

C11_Witness ==
    /\ cm_pc = "done"
    /\ mode = "matrix"
    /\ Len(coords) = 3
    /\ max_seq_len = 2
    /\ coords[3] # coords[1]
    /\ coords[1] # coords[2]
    /\ residues = <<coords[1], coords[2]>>
    /\ Cardinality(DOMAIN cmap) = 4

\* C12: an out-of-range parameter is rejected with a configuration error
\* at call entry, before any scan or distance computation: a generated-
\* contact radius below 0 in align_contact_map, a distance threshold of 0
\* or less in calculate_contact_map.
C12_ConfigurationRejected ==
    /\ (pc # "idle" /\ generated_contacts < 0) =>
           /\ pc \in {"entry", "raised"}
           /\ pc = "raised" => error = "ConfigurationError"
    /\ (cm_pc # "idle" /\ threshold <= 0) =>
           /\ cm_pc \in {"call", "raised"}
           /\ cm_pc = "raised" => cm_error = "ConfigurationError"

\* An argument of filter_sequences that was given (is not None).
Given(x) == x # None

\* IDs of the sequences loaded when filter_sequences was called that are
\* longer than max_length, and those shorter than min_length.
LongerThanMax ==
    {id \in DOMAIN old_sequences :
        Given(max_length) /\ Len(old_sequences[id]) > max_length}

ShorterThanMin ==
    {id \in DOMAIN old_sequences :
        Given(min_length) /\ Len(old_sequences[id]) < min_length}

\* C13: after a successful filter_sequences(min_length, max_length),
\* too_long holds exactly the IDs removed for being longer than max_length
\* and too_short exactly those removed for being shorter than min_length
\* (stated for two limits of 1 or more, where both filters run).
C13_TooLongTooShort ==
    (qf_pc = "returned" /\ min_length >= 1 /\ max_length >= 1) =>
        /\ too_long = LongerThanMax
        /\ too_short = ShorterThanMin

\* IDs the length filters keep.
KeptIds ==
    {id \in DOMAIN old_sequences :
        /\ Given(min_length) => Len(old_sequences[id]) >= min_length
        /\ Given(max_length) => Len(old_sequences[id]) <= max_length}

\* C16: filter_sequences raises ValueError when nothing is loaded and when
\* a length filter leaves nothing; when it returns, sequences is exactly
\* the loaded sequences within the given limits, values unchanged.
C16_FilterResult ==
    /\ qf_pc = "raised" =>
           /\ qf_error = "ValueError"
           /\ KeptIds = {}
    /\ qf_pc = "returned" =>
           /\ KeptIds # {}
           /\ sequences = [id \in KeptIds |-> old_sequences[id]]

\* C16 with "given" read as Python reads it (None and 0 both count as not
\* given): this the code satisfies.
C16_TruthyLimits ==
    LET kept == {id \in DOMAIN old_sequences :
                    /\ Truthy(min_length) =>
                           Len(old_sequences[id]) >= min_length
                    /\ Truthy(max_length) =>
                           Len(old_sequences[id]) <= max_length}
    IN  /\ qf_pc = "raised" => (qf_error = "ValueError" /\ kept = {})
        /\ qf_pc = "returned" =>
               /\ kept # {}
               /\ sequences = [id \in kept |-> old_sequences[id]]

\* C18: when filter_sequences raises ValueError the QueryFile is unchanged:
\* sequences, too_long and too_short keep the values they had at the call.
C18_RaiseLeavesState ==
    qf_pc = "raised" =>
        /\ sequences = old_sequences
        /\ too_long = old_too_long
        /\ too_short = old_too_short

\* (a, b) is the translation of an input contact with both ends mapped.
IsTranslated(a, b) ==
    \E n \in MappedPositions :
        /\ target_to_query_indices[sparse_target_contact_map[n][1]] = a
        /\ target_to_query_indices[sparse_target_contact_map[n][2]] = b

\* (a, b) is a generated contact (q + j, q) or (q - j, q) of a
\* template-uncovered query residue q = b, 1 <= j <= generated_contacts.
IsGenerated(a, b) ==
    \E c \in TargetGapColumns :
        /\ b = UngappedIndex(query_alignment, c)
        /\ \E j \in 1..generated_contacts : a = b + j \/ a = b - j

\* C14: a returned map has no spurious contact: a cell is set only on the
\* diagonal, or where it or its mirror is a translated contact with both
\* ends mapped or an in-range generated contact.
C14_NoSpuriousContacts ==
    Returned =>
        \A a, b \in 0..(query_index - 1) :
            output_contact_map[<<a, b>>] = 1 =>
                \/ a = b
                \/ IsTranslated(a, b) \/ IsTranslated(b, a)
                \/ IsGenerated(a, b) \/ IsGenerated(b, a)

C14_Witness ==
    /\ Returned
    /\ query_index = 3
    /\ \E a, b \in 0..2 :
           a # b /\ IsTranslated(a, b) /\ output_contact_map[<<a, b>>] = 1
    /\ \E a, b \in 0..2 :
           /\ a # b
           /\ IsGenerated(a, b)
           /\ ~IsTranslated(a, b)
           /\ ~IsTranslated(b, a)
           /\ output_contact_map[<<a, b>>] = 1
    /\ \E a, b \in 0..2 : output_contact_map[<<a, b>>] = 0

\* C17: the correspondence built by the scan is strictly increasing on its
\* mapped entries, hence injective, and every mapped value is a query index
\* below N_q.
C17_OrderPreserving ==
    pc \in {"scan", "build", "fill", "done", "raised"} =>
        /\ \A a, b \in DOMAIN target_to_query_indices :
               (a < b /\ Mapped(a) /\ Mapped(b)) =>
                   target_to_query_indices[a] < target_to_query_indices[b]
        /\ \A a \in DOMAIN target_to_query_indices :
               Mapped(a) =>
                   /\ 0 <= target_to_query_indices[a]
                   /\ target_to_query_indices[a] < query_index
                   /\ target_to_query_indices[a] <
                          NonGapCount(query_alignment)
        /\ pc \in {"build", "fill", "done"} =>
               \A n \in MappedPositions :
                   /\ target_to_query_indices[
                          sparse_target_contact_map[n][1]]
                          \in 0..(query_index - 1)
                   /\ target_to_query_indices[
                          sparse_target_contact_map[n][2]]
                          \in 0..(query_index - 1)

C17_Witness ==
    /\ Returned
    /\ \E a, b \in DOMAIN target_to_query_indices :
           /\ a < b
           /\ Mapped(a)
           /\ Mapped(b)
           /\ target_to_query_indices[b] # b
    /\ \E a \in DOMAIN target_to_query_indices : ~Mapped(a)
    /\ MappedPositions # {}

\* The contact list as an unordered set of unordered pairs, each written
\* once, smaller index first.
UnorderedPairs(contacts) ==
    {IF contacts[n][1] <= contacts[n][2]
     THEN contacts[n]
     ELSE <<contacts[n][2], contacts[n][1]>> : n \in 1..Len(contacts)}

RECURSIVE SortedSeq(_)
SortedSeq(S) ==
    IF S = {}
    THEN <<>>
    ELSE LET least == CHOOSE x \in S : \A y \in S : PairLeq(x, y)
         IN  <<least>> \o SortedSeq(S \ {least})

\* The deduplicated list holding one ordering of each pair.
Canonical(contacts) == SortedSeq(UnorderedPairs(contacts))

\* The pairs the scan generated: what sparse_query_contact_map held before
\* the translated contacts were appended.
GeneratedPrefix ==
    SubSeq(sparse_query_contact_map, 1,
           Len(sparse_query_contact_map) -
           Len(SelectSeq(TranslatedPairs(sparse_target_contact_map,
                                         target_to_query_indices),
                         KeepTranslated)))

\* C15: the returned map equals the map obtained from the deduplicated
\* contact list holding one ordering of each pair, so repeated entries and
\* pairs listed in both orders do not change the output.
C15_DuplicateInsensitive ==
    Returned =>
        /\ AlignedMap(sparse_target_contact_map, target_to_query_indices,
                      GeneratedPrefix, query_index) =
               [error |-> "none", map |-> output_contact_map]
        /\ AlignedMap(Canonical(sparse_target_contact_map),
                      target_to_query_indices, GeneratedPrefix,
                      query_index) =
               [error |-> "none", map |-> output_contact_map]

C15_Witness ==
    /\ Returned
    /\ Len(sparse_target_contact_map) = 2
    /\ \E a, b \in TargetIndices :
           /\ a < b
           /\ sparse_target_contact_map = <<<<a, b>>, <<b, a>>>>
           /\ Mapped(a)
           /\ Mapped(b)
           /\ output_contact_map[<<target_to_query_indices[a],
                                   target_to_query_indices[b]>>] = 1
    /\ Canonical(sparse_target_contact_map) # sparse_target_contact_map

\* The same with one entry listed twice.
C15_RepeatedEntry ==
    /\ Returned
    /\ Len(sparse_target_contact_map) = 2
    /\ sparse_target_contact_map[1] = sparse_target_contact_map[2]
    /\ Len(Canonical(sparse_target_contact_map)) = 1
====
